---- MODULE Spec2Model ----
(***************************************************************************)
(* Conversation memory of the DANTE chatbot (src/ChatBot.py): the history  *)
(* and summaries tables, handle_user_message and the background            *)
(* manage_conversation_history task, at the granularity of their SQL       *)
(* statements and model calls.                                             *)
(***************************************************************************)
EXTENDS Integers, Sequences, FiniteSets, TLC

(* ------------------------------ bounds --------------------------------- *)
\* Total number of requests, rejected ones included.
MaxReq == 2
\* Number of injected failures: I/O errors and exceptions of the store, the
\* transport and the model calls.
MaxFaults == 1
\* Last value of the one-second clock behind CURRENT_TIMESTAMP.
MaxTime == 1

Users == {1, 2}
\* Socket sessions; each runs handle_user_message for its requests, and its
\* user may change between requests (logout, login).
Handlers == {"s1"}
\* Background tasks started by socketio.start_background_task.
Tasks == {1, 2}

(* ------------------------- program constants --------------------------- *)
\* The source has 50 / 40 / 30. The model scales them down so that two requests
\* reach them: a turn pair (2 rows) reaches the threshold, a block is one turn
\* pair, and a user's log can outgrow the window.
MAX_HISTORY_MESSAGES == 3
SUMMARIZATION_THRESHOLD == 2
MESSAGES_TO_SUMMARIZE == 2

(* ------------------------------- text ---------------------------------- *)
\* A text is a sequence of one-character strings. Python's None is the
\* one-element sequence below, which no text equals.
None == <<"<None>">>
Whitespace == {" ", "\n"}
universal_role == <<"U">>
SummaryPrefix == <<"S", ":">>
apology == <<"T">>
error_reply == <<"E">>

RECURSIVE lstrip(_)
lstrip(s) == IF s = <<>> THEN s
             ELSE IF Head(s) \in Whitespace THEN lstrip(Tail(s)) ELSE s

RECURSIVE rstrip(_)
rstrip(s) == IF s = <<>> THEN s
             ELSE IF s[Len(s)] \in Whitespace THEN rstrip(SubSeq(s, 1, Len(s) - 1)) ELSE s

\* str.strip()
strip(s) == rstrip(lstrip(s))

\* Python truthiness of an optional text: None and "" are falsy.
Truthy(s) == s # None /\ s # <<>>

\* What the client of user u may put in json_data['message'].
UserText(u) == IF u = 1 THEN <<"p">> ELSE <<"q">>
RawMessages(u) == {UserText(u), <<" ">> \o UserText(u), <<" ">>}
\* What the completion call may return as message.content.
Completions == {<<"r">>, None}
\* What the summarization call may return as message.content.
SummaryTexts == {<<"a">>, <<"b">>, <<" ">>, <<>>, None}

(* ------------------------------ state ---------------------------------- *)
VARIABLES
    history,     \* table history: rows [id, user_id, role, content, timestamp]
    summaries,   \* table summaries: rows [user_id, summary_content]
    nextId,      \* next AUTOINCREMENT id of history
    now,         \* CURRENT_TIMESTAMP of the latest INSERT INTO history
    hs,          \* per session: the running handle_user_message call
    ts,          \* per task: the running manage_conversation_history call
    emitted,     \* per session: data of the last emit('response', ...)
    accepted,    \* per session: number of requests that passed the entry checks
    rejected,    \* per session: number of requests that returned at the entry checks
    faults,      \* the failures injected so far, by kind
    covers       \* per user: ids of the turns whose fragment is in the stored summary

vars == <<history, summaries, nextId, now, hs, ts, emitted, accepted, rejected, faults,
          covers>>

IdleHandler == [pc |-> "idle", user_id |-> 0, user_message |-> <<>>, memory |-> <<>>,
                ai_response |-> None]

\* seen: the ids of the user's rows that the COUNT(*) query counted;
\* readCov: covers[user_id] as it was when existing_summary was read.
IdleTask == [pc |-> "idle", user_id |-> 0, ids_to_delete |-> {},
             new_summary_part |-> None, existing_summary |-> {}, full_summary |-> <<>>,
             seen |-> {}, readCov |-> {}]

Init ==
    /\ history = {}
    /\ summaries = {}
    /\ nextId = 1
    /\ now = 0
    /\ hs = [h \in Handlers |-> IdleHandler]
    /\ ts = [t \in Tasks |-> IdleTask]
    /\ emitted = [h \in Handlers |-> None]
    /\ accepted = [h \in Handlers |-> 0]
    /\ rejected = [h \in Handlers |-> 0]
    /\ faults = <<>>
    /\ covers = [u \in Users |-> {}]

(* ---------------------------- the store -------------------------------- *)
\* Queries without WHERE user_id = ?; C20 does not hold of them.
AllRows(hist, u) == hist

\* ... FROM history WHERE user_id = ?
UserRows(hist, u) == {r \in hist : r.user_id = u}

MinTs(S) == CHOOSE m \in {r.timestamp : r \in S} : \A r \in S : m <= r.timestamp
MaxTs(S) == CHOOSE m \in {r.timestamp : r \in S} : \A r \in S : m >= r.timestamp

\* ORDER BY timestamp ASC LIMIT n: every result SQL allows. Rows of equal
\* timestamp come in an order the statement does not fix.
RECURSIVE OrderByTimestampAsc(_, _)
OrderByTimestampAsc(S, n) ==
    IF n = 0 \/ S = {} THEN {<<>>}
    ELSE UNION {{<<r>> \o s : s \in OrderByTimestampAsc(S \ {r}, n - 1)} :
                r \in {x \in S : x.timestamp = MinTs(S)}}

\* ORDER BY timestamp DESC LIMIT n.
RECURSIVE OrderByTimestampDesc(_, _)
OrderByTimestampDesc(S, n) ==
    IF n = 0 \/ S = {} THEN {<<>>}
    ELSE UNION {{<<r>> \o s : s \in OrderByTimestampDesc(S \ {r}, n - 1)} :
                r \in {x \in S : x.timestamp = MaxTs(S)}}

\* reversed(rows)
Reversed(s) == [i \in 1..Len(s) |-> s[Len(s) + 1 - i]]

Message(r) == [role |-> r.role, content |-> r.content]
Messages(rows) == [i \in 1..Len(rows) |-> Message(rows[i])]

\* SELECT summary_content FROM summaries WHERE user_id = ? ... fetchone():
\* no row ({}) or one of the matching rows.
SummaryRow(sums, u) ==
    IF \E r \in sums : r.user_id = u
    THEN {CHOOSE r \in sums : r.user_id = u}
    ELSE {}

\* A history table whose id is INTEGER PRIMARY KEY without AUTOINCREMENT: the
\* new row gets the largest id in the table plus one, which may be the id of
\* a deleted row. C13 does not hold of it.
NewRowMaxIdPlusOne(u, role, content, tick) ==
    [id |-> IF history = {} THEN 1
            ELSE (CHOOSE i \in {r.id : r \in history} : \A r \in history : r.id <= i) + 1,
     user_id |-> u, role |-> role, content |-> content, timestamp |-> now + tick]

\* INSERT INTO history (user_id, role, content): the row the statement adds,
\* `tick` seconds after the previous INSERT.
NewRow(u, role, content, tick) ==
    [id |-> nextId, user_id |-> u, role |-> role, content |-> content,
     timestamp |-> now + tick]

\* The database's write lock: held by the task whose transaction is open
\* (from its INSERT INTO summaries to its commit).
InTransaction(t) == ts[t].pc \in {"delete", "commit"}
WriteLocked == \E t \in Tasks : InTransaction(t)

(* ------------------------ handle_user_message -------------------------- *)
RECURSIVE Sum(_, _)
Sum(f, S) == IF S = {} THEN 0
             ELSE LET x == CHOOSE y \in S : TRUE IN f[x] + Sum(f, S \ {x})
Accepted == Sum(accepted, Handlers)

\* A step that injects a failure of the given kind when `failed` holds.
Fault(failed, kind) ==
    IF failed THEN Len(faults) < MaxFaults /\ faults' = Append(faults, kind)
    ELSE UNCHANGED faults

\* A handler in which a failed INSERT propagates to the except branch of
\* handle_user_message; C10 does not hold of it.
AfterAddReraise(stored, next) == IF stored THEN next ELSE "error"

\* add_message_to_db catches every exception of its INSERT and returns: the
\* caller goes on to its next statement whether or not the row was stored.
AfterAdd(stored, next) == next

\* A store that keeps the row of an INSERT that reported failure; C14 does
\* not hold of it.
StoredAlways(content, ok) == TRUE

\* add_message_to_db (lines 151-157): the INSERT fails (ok = FALSE) on an I/O
\* error or a lock timeout, and always for a NULL content (content TEXT NOT
\* NULL); it waits while another connection holds the write lock.
Stored(content, ok) == ok /\ content # None

add_message_to_db(u, role, content, ok) ==
    /\ ok => ~WriteLocked
    /\ IF Stored(content, ok)
       THEN \E tick \in {0, 1} :
               /\ now + tick <= MaxTime
               /\ history' = history \cup {NewRow(u, role, content, tick)}
               /\ nextId' = nextId + 1
               /\ now' = now + tick
       ELSE UNCHANGED <<history, nextId, now>>

\* An entry check on the message as sent, before strip(); C12 does not hold
\* of it.
RejectedIfEmpty(authenticated, raw) == ~authenticated \/ raw = <<>>

\* Lines 296-301: no authenticated user, or a message that is empty after
\* strip(): the handler returns at once.
Rejected(authenticated, raw) == ~authenticated \/ strip(raw) = <<>>

Requests == Accepted + Sum(rejected, Handlers)

RejectMessage(h) ==
    /\ hs[h].pc = "idle"
    /\ Requests < MaxReq
    /\ \E u \in Users : \E raw \in RawMessages(u), authenticated \in BOOLEAN :
          Rejected(authenticated, raw)
    /\ rejected' = [rejected EXCEPT ![h] = @ + 1]
    /\ UNCHANGED <<history, summaries, nextId, now, hs, ts, emitted, accepted, faults, covers>>

\* Lines 295-307: the entry checks pass and the user's turn is appended.
ReceiveMessage(h) ==
    /\ hs[h].pc = "idle"
    /\ Requests < MaxReq
    /\ \E u \in Users : \E raw \in RawMessages(u), ok \in BOOLEAN :
          /\ ~Rejected(TRUE, raw)
          /\ add_message_to_db(u, "user", strip(raw), ok)
          /\ Fault(~ok, "append")
          /\ hs' = [hs EXCEPT ![h] = [IdleHandler EXCEPT
                        !.pc = AfterAdd(Stored(strip(raw), ok), "load_summary"),
                        !.user_id = u,
                        !.user_message = strip(raw)]]
    /\ accepted' = [accepted EXCEPT ![h] = @ + 1]
    /\ emitted' = [emitted EXCEPT ![h] = None]
    /\ UNCHANGED <<summaries, ts, rejected, covers>>

SystemMessage == [role |-> "system", content |-> universal_role]
SummaryMessage(row) ==
    [role |-> "system", content |-> SummaryPrefix \o row.summary_content]

\* An assembler whose summary query has no WHERE user_id = ?; C5 does not
\* hold of it.
MemoryHeadAnyUser(sums, u) ==
    <<SystemMessage>> \o
    (IF sums # {} THEN <<SummaryMessage(CHOOSE r \in sums : TRUE)>> ELSE <<>>)

\* Lines 134-139 of load_memory_from_db.
MemoryHead(sums, u) ==
    <<SystemMessage>> \o
    (IF SummaryRow(sums, u) # {}
     THEN <<SummaryMessage(CHOOSE r \in SummaryRow(sums, u) : TRUE)>>
     ELSE <<>>)

\* Lines 141-145: the lists the history query and reversed() can yield.
RecentMessages(hist, u, max_messages) ==
    {Messages(Reversed(rows)) :
        rows \in OrderByTimestampDesc(UserRows(hist, u), max_messages)}

\* Lines 147-149: a query raised.
MemoryOnError == <<SystemMessage>>

\* Lines 133-149: every list load_memory_from_db can return on one store state.
load_memory_from_db(sums, hist, u) ==
    {MemoryHead(sums, u) \o recent :
        recent \in RecentMessages(hist, u, MAX_HISTORY_MESSAGES)} \cup {MemoryOnError}

\* Lines 164-175: the completion call returns its content, or raises and the
\* function returns the apology string.
get_ai_response(content, raised) == IF raised THEN apology ELSE content

\* Lines 134-139: the summary query (or its failure).
LoadSummary(h) ==
    /\ hs[h].pc = "load_summary"
    /\ \E fails \in BOOLEAN :
          /\ hs' = [hs EXCEPT
                   ![h].pc = IF fails THEN "model" ELSE "load_rows",
                   ![h].memory = IF fails THEN MemoryOnError
                                 ELSE MemoryHead(summaries, hs[h].user_id)]
          /\ Fault(fails, "read")
    /\ UNCHANGED <<history, summaries, nextId, now, ts, emitted, accepted, rejected, covers>>

\* Lines 141-146: the history query (or its failure).
LoadRows(h) ==
    /\ hs[h].pc = "load_rows"
    /\ \/ /\ \E recent \in RecentMessages(history, hs[h].user_id, MAX_HISTORY_MESSAGES) :
                hs' = [hs EXCEPT ![h].pc = "model", ![h].memory = @ \o recent]
          /\ UNCHANGED faults
       \/ /\ hs' = [hs EXCEPT ![h].pc = "model", ![h].memory = MemoryOnError]
          /\ Fault(TRUE, "read")
    /\ UNCHANGED <<history, summaries, nextId, now, ts, emitted, accepted, rejected, covers>>

\* Lines 309-310: the completion call, then the append of its result.
RespondAndStore(h) ==
    /\ hs[h].pc = "model"
    /\ \E content \in Completions, raised \in BOOLEAN, ok \in BOOLEAN :
          LET ai_response == get_ai_response(content, raised) IN
          /\ add_message_to_db(hs[h].user_id, "assistant", ai_response, ok)
          /\ Fault(~ok \/ raised \/ content = None,
                   IF raised \/ content = None THEN "completion" ELSE "append")
          /\ hs' = [hs EXCEPT ![h].pc = AfterAdd(Stored(ai_response, ok), "emit"),
                              ![h].ai_response = ai_response,
                              ![h].memory = <<>>]
    /\ UNCHANGED <<summaries, ts, emitted, accepted, rejected, covers>>

\* Line 312.
Emit(h) ==
    /\ hs[h].pc = "emit"
    /\ emitted' = [emitted EXCEPT ![h] = hs[h].ai_response]
    /\ hs' = [hs EXCEPT ![h].pc = "spawn"]
    /\ UNCHANGED <<history, summaries, nextId, now, ts, accepted, rejected, faults, covers>>

\* A handler that returns after the emit without line 313; C17 does not
\* hold of it.
ReturnWithoutTask(h) ==
    /\ hs[h].pc = "spawn"
    /\ hs' = [hs EXCEPT ![h] = IdleHandler]
    /\ UNCHANGED <<history, summaries, nextId, now, ts, emitted, accepted, rejected, faults,
                   covers>>

\* Line 313: socketio.start_background_task(manage_conversation_history, user_id).
StartBackgroundTask(h) ==
    /\ hs[h].pc = "spawn"
    /\ \E t \in Tasks :
          /\ ts[t].pc = "idle"
          /\ \A t2 \in Tasks : ts[t2].pc = "idle" => t <= t2
          /\ ts' = [ts EXCEPT ![t] = [IdleTask EXCEPT !.pc = "count",
                                                      !.user_id = hs[h].user_id]]
    /\ hs' = [hs EXCEPT ![h] = IdleHandler]
    /\ UNCHANGED <<history, summaries, nextId, now, emitted, accepted, rejected, faults, covers>>

\* emit or start_background_task raises inside the try block.
RaiseInTry(h) ==
    /\ hs[h].pc \in {"emit", "spawn"}
    /\ hs' = [hs EXCEPT ![h].pc = "error"]
    /\ Fault(TRUE, "transport")
    /\ UNCHANGED <<history, summaries, nextId, now, ts, emitted, accepted, rejected, covers>>

\* Lines 314-316.
ExceptInHandler(h) ==
    /\ hs[h].pc = "error"
    /\ emitted' = [emitted EXCEPT ![h] = error_reply]
    /\ hs' = [hs EXCEPT ![h] = IdleHandler]
    /\ UNCHANGED <<history, summaries, nextId, now, ts, accepted, rejected, faults, covers>>

(* -------------------- manage_conversation_history ---------------------- *)
\* A check `if new_summary_part is None: return`; C1 does not hold of it.
UnusableIfNone(part) == part = None

\* Line 206: `if not new_summary_part: return`.
Unusable(part) == ~Truthy(part)

\* A merge without the strip() of line 210; C7 does not hold of it.
FullSummaryUnstripped(existing, part) ==
    (IF existing # {} THEN (CHOOSE r \in existing : TRUE).summary_content ELSE <<>>)
    \o <<"\n", "\n">> \o part

\* Line 210.
FullSummary(existing, part) ==
    strip((IF existing # {} THEN (CHOOSE r \in existing : TRUE).summary_content ELSE <<>>)
          \o <<"\n", "\n">> \o part)

\* Lines 212-215: INSERT ... ON CONFLICT(user_id) DO UPDATE.
Upsert(sums, u, content) ==
    {r \in sums : r.user_id # u} \cup {[user_id |-> u, summary_content |-> content]}

\* Line 203.
Ids(rows) == {rows[i].id : i \in 1..Len(rows)}

\* A run without the DELETE of lines 217-218; C19 does not hold of it.
DeleteNothing(hist, ids) == hist

\* Line 218: DELETE FROM history WHERE id IN (...).
DeleteIds(hist, ids) == {r \in hist : r.id \notin ids}

\* A check `if count <= SUMMARIZATION_THRESHOLD: return`; C16 does not hold
\* of it.
AtOrBelowThreshold(count) == count <= SUMMARIZATION_THRESHOLD

\* Line 196.
BelowThreshold(count) == count < SUMMARIZATION_THRESHOLD

\* Lines 195-197.
CountCheck(t) ==
    /\ ts[t].pc = "count"
    /\ ts' = [ts EXCEPT ![t] =
                 IF BelowThreshold(Cardinality(UserRows(history, ts[t].user_id)))
                 THEN IdleTask
                 ELSE [@ EXCEPT !.pc = "select",
                                !.seen = {r.id : r \in UserRows(history, ts[t].user_id)}]]
    /\ UNCHANGED <<history, summaries, nextId, now, hs, emitted, accepted, rejected, faults, covers>>

\* Lines 201-203.
SelectBlock(t) ==
    /\ ts[t].pc = "select"
    /\ \E rows \in OrderByTimestampAsc(UserRows(history, ts[t].user_id),
                                       MESSAGES_TO_SUMMARIZE) :
          ts' = [ts EXCEPT ![t].pc = "summarize", ![t].ids_to_delete = Ids(rows)]
    /\ UNCHANGED <<history, summaries, nextId, now, hs, emitted, accepted, rejected, faults, covers>>

\* Lines 177-189: the call returns its content, or raises and the function
\* returns None.
summarize_conversation(content, raised) == IF raised THEN None ELSE content

\* Lines 205-210: the summarization call; on a usable result, the read of the
\* stored summary and the merge.
Summarize(t) ==
    /\ ts[t].pc = "summarize"
    /\ \E content \in SummaryTexts, raised \in BOOLEAN :
          LET new_summary_part == summarize_conversation(content, raised)
              existing == SummaryRow(summaries, ts[t].user_id) IN
          /\ Fault(Unusable(new_summary_part), "summarize")
          /\ ts' = [ts EXCEPT ![t] =
                    IF Unusable(new_summary_part)
                    THEN IdleTask
                    ELSE [@ EXCEPT !.pc = "upsert",
                                   !.new_summary_part = new_summary_part,
                                   !.existing_summary = existing,
                                   !.full_summary = FullSummary(existing, new_summary_part),
                                   !.readCov = covers[ts[t].user_id]]]
    /\ UNCHANGED <<history, summaries, nextId, now, hs, emitted, accepted, rejected, covers>>

\* Lines 212-215: the INSERT opens the connection's transaction and takes the
\* write lock; its effect is seen by others at the commit.
UpsertSummary(t) ==
    /\ ts[t].pc = "upsert"
    /\ ~WriteLocked
    /\ ts' = [ts EXCEPT ![t].pc = IF ts[t].ids_to_delete # {} THEN "delete" ELSE "commit"]
    /\ UNCHANGED <<history, summaries, nextId, now, hs, emitted, accepted, rejected, faults, covers>>

\* Lines 217-218, inside the open transaction.
DeleteBlock(t) ==
    /\ ts[t].pc = "delete"
    /\ ts' = [ts EXCEPT ![t].pc = "commit"]
    /\ UNCHANGED <<history, summaries, nextId, now, hs, emitted, accepted, rejected, faults, covers>>

\* Line 220: the transaction's upsert and delete take effect together.
Commit(t) ==
    /\ ts[t].pc = "commit"
    /\ summaries' = Upsert(summaries, ts[t].user_id, ts[t].full_summary)
    /\ history' = DeleteIds(history, ts[t].ids_to_delete)
    /\ covers' = [covers EXCEPT ![ts[t].user_id] = ts[t].readCov \cup ts[t].ids_to_delete]
    /\ ts' = [ts EXCEPT ![t] = IdleTask]
    /\ UNCHANGED <<nextId, now, hs, emitted, accepted, rejected, faults>>

\* A run whose failure is reported to the client in place of the reply; C18
\* does not hold of it.
RaiseInTaskReported(t) ==
    /\ ts[t].pc # "idle"
    /\ ts' = [ts EXCEPT ![t] = IdleTask]
    /\ Fault(TRUE, "task")
    /\ emitted' = [h \in Handlers |-> error_reply]
    /\ UNCHANGED <<history, summaries, nextId, now, hs, accepted, rejected, covers>>

\* Lines 222-223 and 71-72: a statement raises (or the process dies); the
\* connection is closed and its open transaction, if any, is rolled back.
RaiseInTask(t) ==
    /\ ts[t].pc # "idle"
    /\ ts' = [ts EXCEPT ![t] = IdleTask]
    /\ Fault(TRUE, "task")
    /\ UNCHANGED <<history, summaries, nextId, now, hs, emitted, accepted, rejected, covers>>

(* ------------------------------ system --------------------------------- *)
Next ==
    \/ \E h \in Handlers :
          \/ RejectMessage(h)
          \/ ReceiveMessage(h)
          \/ LoadSummary(h)
          \/ LoadRows(h)
          \/ RespondAndStore(h)
          \/ Emit(h)
          \/ StartBackgroundTask(h)
          \/ RaiseInTry(h)
          \/ ExceptInHandler(h)
    \/ \E t \in Tasks :
          \/ CountCheck(t)
          \/ SelectBlock(t)
          \/ Summarize(t)
          \/ UpsertSummary(t)
          \/ DeleteBlock(t)
          \/ Commit(t)
          \/ RaiseInTask(t)

Spec == Init /\ [][Next]_vars

\* A handler that has passed the entry checks runs on to its return, and a
\* started background task is run to its end: the server runs every handler
\* and every task it has started. Failures and the arrival of requests are
\* not forced.
HandlerStep(h) ==
    \/ LoadSummary(h) \/ LoadRows(h) \/ RespondAndStore(h)
    \/ Emit(h) \/ StartBackgroundTask(h) \/ ExceptInHandler(h)

TaskStep(t) ==
    \/ CountCheck(t) \/ SelectBlock(t) \/ Summarize(t)
    \/ UpsertSummary(t) \/ DeleteBlock(t) \/ Commit(t)

FairSpec ==
    /\ Spec
    /\ \A h \in Handlers : WF_vars(HandlerStep(h))
    /\ \A t \in Tasks : WF_vars(TaskStep(t))

\* The system with a client that sends its next message only when the
\* compaction run of the previous turn has ended.
SeqNext ==
    /\ Next
    /\ (\E h \in Handlers : hs[h].pc = "idle" /\ hs'[h].pc # "idle") =>
          \A t \in Tasks : ts[t].pc = "idle"

SeqSpec == Init /\ [][SeqNext]_vars

(* ------------------------------ claims --------------------------------- *)
\* The Request Gate of the specification (section 4.5); the source has none.
\* max_requests is scaled from the specification's test value 3 to the
\* number of requests the model sends.
max_requests == 1
time_window == 60

HasFault(kind) == \E i \in 1..Len(faults) : faults[i] = kind

RowBefore(a, b) ==
    a.timestamp < b.timestamp \/ (a.timestamp = b.timestamp /\ a.id < b.id)

\* The rows of S in the order (timestamp, id).
RECURSIVE Chronological(_)
Chronological(S) ==
    IF S = {} THEN <<>>
    ELSE LET first == CHOOSE r \in S : \A x \in S \ {r} : RowBefore(r, x)
         IN <<first>> \o Chronological(S \ {first})

Min(a, b) == IF a <= b THEN a ELSE b

\* A step of task t that commits its transaction.
CommitStep(t) == ts[t].pc = "commit" /\ ts'[t].pc = "idle" /\ faults' = faults

\* No statement of another run or handler changed the user's log or summary
\* since task t counted the rows (and read the summary).
Uninterleaved(t) ==
    /\ {r.id : r \in UserRows(history, ts[t].user_id)} = ts[t].seen
    /\ ts[t].existing_summary = SummaryRow(summaries, ts[t].user_id)

SummaryContent(sums, u) == (CHOOSE r \in SummaryRow(sums, u) : TRUE).summary_content

\* C1: a compaction run changes the turn log and the summaries only in its
\* commit, and it reaches the commit only with a usable summarization result;
\* a run whose summarization call failed or returned None or "" therefore
\* leaves the user's turn count and summary as they were.
C1_CompactionSafety ==
    [][\A t \in Tasks :
          (ts'[t] # ts[t] /\ ~(ts[t].pc = "commit" /\ Truthy(ts[t].new_summary_part)))
             => (history' = history /\ summaries' = summaries)]_vars

\* After a failed summarization the user's turns are still stored.
C1_Witness ==
    /\ HasFault("summarize")
    /\ \A t \in Tasks : ts[t].pc = "idle"
    /\ \E u \in Users : Cardinality(UserRows(history, u)) >= SUMMARIZATION_THRESHOLD

\* C2: every turn removed from the turn log is covered by a fragment that the
\* user's stored summary contains.
C2_MergeBeforePrune ==
    \A id \in 1..(nextId - 1) :
        (\A r \in history : r.id # id) => \E u \in Users : id \in covers[u]

InFlight(t) == ts[t].pc \in {"select", "summarize", "upsert", "delete", "commit"}

\* C3: at most one compaction run per user is in flight (past its count
\* check and before its commit or abort).
C3_SingleFlight ==
    \A t1, t2 \in Tasks :
        (t1 # t2 /\ InFlight(t1) /\ InFlight(t2)) => ts[t1].user_id # ts[t2].user_id

\* The min(count, MAX_HISTORY_MESSAGES) most recent turns of u, oldest first
\* in the order (timestamp, id).
ExpectedRecent(u) ==
    LET c == Chronological(UserRows(history, u))
        n == Len(c)
    IN Messages(SubSeq(c, n - Min(n, MAX_HISTORY_MESSAGES) + 1, n))

TurnsOf(u) == {Message(r) : r \in UserRows(history, u)}

\* m is well assembled for u on the current store state: the system message
\* first, the summary message second exactly if u has a summary, then only
\* stored turns of u, and at most 2 + MAX_HISTORY_MESSAGES elements.
Assembled(m, u) ==
    LET k == IF SummaryRow(summaries, u) # {} THEN 2 ELSE 1 IN
    /\ Len(m) >= k
    /\ Len(m) <= 2 + MAX_HISTORY_MESSAGES
    /\ m[1] = SystemMessage
    /\ k = 2 => m[2] = [role |-> "system",
                        content |-> SummaryPrefix \o SummaryContent(summaries, u)]
    /\ \A i \in (k + 1)..Len(m) : m[i] \in TurnsOf(u)

\* C5 as stated: every list the assembler can return on a store state, a read
\* failure included, is well assembled.
C5_BoundedAssembledHistory ==
    \A u \in Users :
        \A m \in load_memory_from_db(summaries, history, u) : Assembled(m, u)

\* C5 as amended: every list the assembler can return on a store state is
\* well assembled, or (after a read failure) is the system message alone; the
\* list a handler holds for its model call starts with the system message,
\* has a system message nowhere else but in second place and has at most
\* 2 + MAX_HISTORY_MESSAGES elements.
C5_AssembledOrSystemOnly ==
    /\ \A u \in Users :
          \A m \in load_memory_from_db(summaries, history, u) :
              m = <<SystemMessage>> \/ Assembled(m, u)
    /\ \A h \in Handlers :
          hs[h].pc = "model" =>
             LET m == hs[h].memory IN
             /\ Len(m) >= 1 /\ Len(m) <= 2 + MAX_HISTORY_MESSAGES
             /\ m[1] = SystemMessage
             /\ \A i \in 2..Len(m) : m[i].role = "system" => i = 2
             /\ \A i \in 2..Len(m) :
                   m[i].role # "system" => m[i].content \in {UserText(hs[h].user_id), <<"r">>, apology}

\* A handler holds a list with the summary message and a stored turn.
C5_Witness ==
    \E h \in Handlers :
        /\ hs[h].pc = "model"
        /\ Len(hs[h].memory) >= 3
        /\ hs[h].memory[2].role = "system"

\* C6: a run that commits without any interleaved change to the user's log
\* and summary removes exactly the MESSAGES_TO_SUMMARIZE oldest turns, keeps
\* the others and leaves a non-empty summary.
C6_PrunesOldestBlock ==
    [][\A t \in Tasks :
          (CommitStep(t) /\ Uninterleaved(t)) =>
             LET u == ts[t].user_id
                 c == Chronological(UserRows(history, u))
             IN /\ UserRows(history', u) =
                      {c[i] : i \in (MESSAGES_TO_SUMMARIZE + 1)..Len(c)}
                /\ Cardinality(UserRows(history', u)) = Len(c) - MESSAGES_TO_SUMMARIZE
                /\ SummaryRow(summaries', u) # {}
                /\ SummaryContent(summaries', u) # <<>>]_vars

\* The text has a first and a last character, neither of them whitespace.
Clean(s) == s # <<>> /\ s[1] \notin Whitespace /\ s[Len(s)] \notin Whitespace

\* The existing content, a blank line, the fragment; the fragment alone when
\* no summary exists.
Merged(existing, part) ==
    IF existing = {} THEN part
    ELSE (CHOOSE r \in existing : TRUE).summary_content \o <<"\n", "\n">> \o part

OneSummaryPerUser(sums) ==
    \A u \in Users : Cardinality({r \in sums : r.user_id = u}) <= 1

C8_ModelFailureLeavesStateUnaffected ==
    [][/\ \A h \in Handlers :
             (hs[h].pc = "model" /\ hs'[h].pc # "model" /\ hs'[h].ai_response = apology)
                => (history' = history /\ summaries' = summaries)
       /\ \A u \in Users :
             \A m \in load_memory_from_db(summaries', history', u) :
                \A i \in 1..Len(m) : m[i].content # apology]_vars

\* C9: within the window, no session has more than max_requests requests
\* that passed the entry point (and so changed the store or called the model).
C9_RequestGate ==
    \A h \in Handlers : now < time_window => accepted[h] <= max_requests

\* The step appends at most one row, of user u and the given role.
AppendsAtMost(u, role) ==
    /\ summaries' = summaries
    /\ \/ history' = history
       \/ \E r \in history' \ history :
             /\ history' = history \cup {r}
             /\ r.user_id = u /\ r.role = role /\ r.id = nextId

\* C10: handle_user_message never leaves its path because an append failed:
\* after the append of the user's turn, stored or not, it assembles the
\* history; after the completion call and the append of its result, stored
\* or not, it emits that result; it then starts the compaction task; it
\* reaches its except branch only from the emit or the task start; an append
\* step changes the store by at most the one row.
C10_FailedAppendNonFatal ==
    [][\A h \in Handlers :
          LET a == hs[h]
              b == hs'[h]
          IN /\ (a.pc = "idle" /\ b.pc # "idle") =>
                   (b.pc = "load_summary" /\ AppendsAtMost(b.user_id, "user"))
             /\ (a.pc = "model" /\ b.pc # "model") =>
                   (b.pc = "emit" /\ AppendsAtMost(a.user_id, "assistant"))
             /\ (a.pc = "emit" /\ b.pc # "emit") =>
                   \/ b.pc = "spawn" /\ emitted'[h] = a.ai_response
                   \/ b.pc = "error" /\ HasFault("transport")'
             /\ (a.pc = "spawn" /\ b.pc # "spawn") =>
                   \/ /\ b.pc = "idle"
                      /\ \E t \in Tasks : /\ ts[t].pc = "idle"
                                          /\ ts'[t].pc = "count"
                                          /\ ts'[t].user_id = a.user_id
                   \/ b.pc = "error" /\ HasFault("transport")']_vars

\* The user's turn was not stored, and the handler has emitted the reply and
\* is about to start the compaction task.
C10_Witness ==
    \E h \in Handlers :
        /\ hs[h].pc = "spawn"
        /\ HasFault("append")
        /\ emitted[h] = hs[h].ai_response
        /\ \A r \in UserRows(history, hs[h].user_id) : r.role # "user"
        /\ \E r \in UserRows(history, hs[h].user_id) : r.role = "assistant"

\* The turns of u were processed with no failure and no compaction commit:
\* every row ever stored is a row of u and is still there, and u has no
\* summary.
UndisturbedLog(u) ==
    /\ faults = <<>>
    /\ summaries = {}
    /\ Cardinality(history) = nextId - 1
    /\ \A r \in history : r.user_id = u

C12_EmptyInputRejected ==
    [][/\ \A h \in Handlers :
             rejected'[h] # rejected[h] =>
                UNCHANGED <<history, summaries, nextId, now, hs, ts, emitted, accepted, covers>>
       /\ \A h \in Handlers : hs'[h].pc # "idle" => strip(hs'[h].user_message) # <<>>
       /\ \A r \in history' : r.role = "user" => strip(r.content) # <<>>]_vars

\* A request was rejected after a turn had been stored.
C12_Witness ==
    \E h \in Handlers :
        /\ rejected[h] >= 1
        /\ hs[h].pc = "idle"
        /\ history # {}

\* C13: for the id set S of every compaction run, deleting S twice gives the
\* store that deleting it once gives, also when a row is appended between the
\* two deletes; ids are unique and every stored id is below the next id to be
\* assigned, so the ids a run holds never name a row appended later.
C13_DeleteIdempotence ==
    /\ \A r1, r2 \in history : r1.id = r2.id => r1 = r2
    /\ \A r \in history : r.id < nextId
    /\ \A t \in Tasks :
          LET S == ts[t].ids_to_delete
              once == DeleteIds(history, S)
          IN /\ DeleteIds(once, S) = once
             /\ \A u \in Users :
                   LET appended == once \cup {NewRow(u, "user", UserText(u), 0)}
                   IN DeleteIds(appended, S) = appended

\* A run is about to commit the delete of a block that another run has
\* already deleted, while later turns are stored.
C13_Witness ==
    \E t \in Tasks :
        /\ ts[t].pc = "commit"
        /\ ts[t].ids_to_delete # {}
        /\ \A r \in history : r.id \notin ts[t].ids_to_delete
        /\ history # {}

count(hist, u) == Cardinality(UserRows(hist, u))

\* The step is an append by a handler working for u (lines 307 and 310).
AppendStepFor(u) ==
    \E h \in Handlers :
        \/ hs[h].pc = "idle" /\ hs'[h].pc # "idle" /\ hs'[h].user_id = u
        \/ hs[h].pc = "model" /\ hs'[h].pc # "model" /\ hs[h].user_id = u

\* C14: in every step the count of a user stays, or grows by one in an append
\* for that user that did not fail, or shrinks in the commit of a compaction
\* run of that user by rows that run selected; and as long as no compaction
\* has committed, the stored turns are as many as the successful appends.
C14_CountTracksAppends ==
    [][/\ \A u \in Users :
             LET c == count(history, u)
                 d == count(history', u)
             IN \/ d = c /\ UserRows(history', u) = UserRows(history, u)
                \/ /\ d = c + 1
                   /\ AppendStepFor(u)
                   /\ nextId' = nextId + 1
                   /\ ~(faults' # faults /\ faults'[Len(faults')] = "append")
                \/ /\ d < c
                   /\ \E t \in Tasks :
                         /\ CommitStep(t) /\ ts[t].user_id = u
                         /\ \A r \in UserRows(history, u) \ UserRows(history', u) :
                               r.id \in ts[t].ids_to_delete
       /\ (\A u \in Users : covers'[u] = {}) => Cardinality(history') = nextId' - 1]_vars

\* Three appends of one user, no compaction commit: the count is three.
C14_Witness ==
    \E u \in Users :
        /\ count(history, u) = 3
        /\ nextId = 4
        /\ \A v \in Users : covers[v] = {}

\* C15: no step removes a user's summary, and every commit of a compaction
\* run (with a fragment, and a summary before it, free of whitespace at the
\* ends) leaves the content stored just before the commit, a blank line and
\* the run's fragment (the fragment alone if there was no summary).
C15_SummaryExtendedNeverReplaced ==
    [][/\ \A u \in Users : SummaryRow(summaries, u) # {} => SummaryRow(summaries', u) # {}
       /\ \A t \in Tasks :
             LET u == ts[t].user_id
                 before == SummaryRow(summaries, u)
             IN (/\ CommitStep(t)
                 /\ Clean(ts[t].new_summary_part)
                 /\ before # {} => Clean(SummaryContent(summaries, u))) =>
                   SummaryContent(summaries', u) = Merged(before, ts[t].new_summary_part)]_vars

\* C16: a run's count check changes neither the turn log nor the summaries;
\* with a count below SUMMARIZATION_THRESHOLD the run ends there, before any
\* model call; with a count at or above it the run goes on to the block
\* query, which takes min(count, MESSAGES_TO_SUMMARIZE) rows of the user, none
\* of them newer by timestamp than a row it leaves, and then to the
\* summarization call.
C16_ThresholdCheck ==
    [][\A t \in Tasks :
          LET u == ts[t].user_id
              rows == UserRows(history, u)
          IN /\ (ts[t].pc = "count" /\ ts'[t] # ts[t] /\ faults' = faults) =>
                   /\ history' = history /\ summaries' = summaries
                   /\ IF count(history, u) < SUMMARIZATION_THRESHOLD
                      THEN ts'[t] = IdleTask
                      ELSE ts'[t].pc = "select" /\ ts'[t].user_id = u
             /\ (ts[t].pc = "select" /\ ts'[t] # ts[t] /\ faults' = faults) =>
                   /\ history' = history /\ summaries' = summaries
                   /\ ts'[t].pc = "summarize"
                   /\ ts'[t].ids_to_delete \subseteq {r.id : r \in rows}
                   /\ Cardinality(ts'[t].ids_to_delete) =
                         Min(Cardinality(rows), MESSAGES_TO_SUMMARIZE)
                   /\ \A r \in rows, x \in rows :
                         (r.id \in ts'[t].ids_to_delete /\ x.id \notin ts'[t].ids_to_delete)
                            => r.timestamp <= x.timestamp]_vars

\* A run found the count exactly at the threshold and is at its block query.
C16_Witness ==
    \E t \in Tasks :
        /\ ts[t].pc = "select"
        /\ Cardinality(ts[t].seen) = SUMMARIZATION_THRESHOLD
        /\ count(history, ts[t].user_id) = SUMMARIZATION_THRESHOLD

\* C17: a handler that has emitted its reply returns, and it returns from
\* there (unless the start raises) by starting a compaction run for its user,
\* whatever happened to earlier runs; a run that has a usable summarization
\* result for its block ends, and it ends (unless one of its statements
\* raises) by a commit that leaves a summary for the user and none of the
\* block's rows in the log.
C17_CompactionRetried ==
    /\ [][\A h \in Handlers :
             (hs[h].pc = "spawn" /\ hs'[h].pc # "spawn") =>
                \/ /\ hs'[h].pc = "idle"
                   /\ \E t \in Tasks : /\ ts[t].pc = "idle"
                                       /\ ts'[t].pc = "count"
                                       /\ ts'[t].user_id = hs[h].user_id
                \/ hs'[h].pc = "error" /\ HasFault("transport")']_vars
    /\ [][\A t \in Tasks :
             (ts[t].pc \in {"upsert", "delete", "commit"} /\ ts'[t] # ts[t]) =>
                \/ /\ ts'[t].pc \in {"delete", "commit"}
                   /\ ts'[t].ids_to_delete = ts[t].ids_to_delete
                   /\ ts'[t].user_id = ts[t].user_id
                \/ /\ CommitStep(t)
                   /\ \A r \in history' : r.id \notin ts[t].ids_to_delete
                   /\ SummaryRow(summaries', ts[t].user_id) # {}
                \/ ts'[t].pc = "idle" /\ HasFault("task")']_vars
    /\ \A h \in Handlers : (hs[h].pc = "spawn") ~> (hs[h].pc = "idle")
    /\ \A t \in Tasks : (ts[t].pc = "upsert") ~> (ts[t].pc = "idle")

\* After a run aborted by a failed summarization, a later run of the user has
\* a usable result and is about to store it.
C17_Witness ==
    /\ HasFault("summarize")
    /\ \E t \in Tasks :
          /\ ts[t].pc = "upsert"
          /\ ts[t].ids_to_delete # {}
          /\ \A t2 \in Tasks \ {t} : ts[t2].pc = "idle"

\* C18: a handler reaches its emit only from the step that called the model
\* and appended the reply, and that step only after the append of the user's
\* turn and the assembly; what it emits is the reply; a compaction run starts
\* only in the step in which a handler that has emitted its reply returns,
\* and the run is then still before its count check; no step of a run, its
\* failure included, changes a handler or what was emitted.
C18_CompactionOffReplyPath ==
    [][/\ \A h \in Handlers :
             LET a == hs[h].pc
                 b == hs'[h].pc
             IN /\ (b = "load_summary" /\ a # b) => a = "idle"
                /\ (b = "load_rows" /\ a # b) => a = "load_summary"
                /\ (b = "model" /\ a # b) => a \in {"load_summary", "load_rows"}
                /\ (b = "emit" /\ a # b) => a = "model"
                /\ (b = "spawn" /\ a # b) =>
                      (a = "emit" /\ emitted'[h] = hs[h].ai_response)
                /\ (emitted'[h] # emitted[h]) =>
                      \/ a = "emit" /\ b = "spawn"
                      \/ a = "error" /\ b = "idle"
                      \/ a = "idle" /\ b # "idle" /\ emitted'[h] = None
       /\ \A t \in Tasks :
             /\ (ts[t].pc = "idle" /\ ts'[t].pc # "idle") =>
                   /\ ts'[t].pc = "count"
                   /\ \E h \in Handlers :
                         /\ hs[h].pc = "spawn" /\ hs'[h].pc = "idle"
                         /\ emitted[h] = hs[h].ai_response
                         /\ emitted'[h] = emitted[h]
                         /\ ts'[t].user_id = hs[h].user_id
             /\ (ts[t].pc # "idle" /\ ts'[t] # ts[t]) =>
                   (emitted' = emitted /\ hs' = hs)]_vars

\* A compaction run failed after the handler had returned; the reply sent
\* is still the model's reply.
C18_Witness ==
    /\ HasFault("task")
    /\ \E h \in Handlers : hs[h].pc = "idle" /\ emitted[h] = <<"r">>
    /\ \A t \in Tasks : ts[t].pc = "idle"

\* C19: when turns are processed one at a time, each turn's compaction run
\* having ended before the next turn starts, and no run was skipped or cut
\* short (the task start did not raise, no summarization failed, no statement
\* of a run raised), no user ever has more than SUMMARIZATION_THRESHOLD + 1
\* stored turns.
C19_BoundedGrowth ==
    (~HasFault("transport") /\ ~HasFault("summarize") /\ ~HasFault("task")) =>
        \A u \in Users : count(history, u) <= SUMMARIZATION_THRESHOLD + 1

\* A user has SUMMARIZATION_THRESHOLD + 1 stored turns, the run of every
\* earlier turn having completed.
C19_Witness ==
    /\ ~HasFault("transport") /\ ~HasFault("summarize") /\ ~HasFault("task")
    /\ \E u \in Users : count(history, u) = SUMMARIZATION_THRESHOLD + 1

\* C20: a step changes the turns or the summary of a user v only if it is an
\* append of a handler working for v or the commit of a run of v; the model
\* input a handler holds for u has only u's messages as user turns, its
\* summary message is built from u's summary row and its turns from u's rows;
\* the block and the summary a run of u holds are rows of u.
C20_PerUserIsolation ==
    [][/\ \A v \in Users :
             (\/ {r \in history' : r.user_id = v} # {r \in history : r.user_id = v}
              \/ {r \in summaries' : r.user_id = v} # {r \in summaries : r.user_id = v})
                => \/ \E h \in Handlers :
                         /\ hs'[h].user_id = v \/ hs[h].user_id = v
                         /\ hs[h].pc \in {"idle", "model"} /\ hs'[h].pc # hs[h].pc
                         /\ summaries' = summaries
                         /\ \A r \in history' \ history : r.user_id = v
                         /\ history \subseteq history'
                   \/ \E t \in Tasks : CommitStep(t) /\ ts[t].user_id = v
       /\ \A h \in Handlers :
             LET m == hs'[h].memory
                 u == hs[h].user_id
                 own == {r \in summaries : r.user_id = u}
             IN /\ \A i \in 1..Len(m) :
                      m[i].role = "user" => m[i].content = UserText(hs'[h].user_id)
                /\ (hs[h].pc = "load_summary" /\ hs'[h].pc = "load_rows") =>
                      \/ own = {} /\ m = <<SystemMessage>>
                      \/ \E r \in own : m = <<SystemMessage, SummaryMessage(r)>>
                /\ (hs[h].pc = "load_rows" /\ hs'[h].pc = "model" /\ faults' = faults) =>
                      \A i \in (Len(hs[h].memory) + 1)..Len(m) :
                         \E r \in history : r.user_id = u /\ m[i] = Message(r)
       /\ \A t \in Tasks :
             /\ \A r \in history' : r.id \in ts'[t].ids_to_delete => r.user_id = ts'[t].user_id
             /\ \A r \in ts'[t].existing_summary : r.user_id = ts'[t].user_id]_vars

\* A run of one user is about to commit while a handler holds the model
\* input of another user, both users having stored turns.
C20_Witness ==
    \E t \in Tasks, h \in Handlers :
        /\ ts[t].pc = "commit"
        /\ hs[h].pc = "model"
        /\ hs[h].user_id # ts[t].user_id
        /\ Len(hs[h].memory) >= 2
        /\ \E r \in history : r.user_id = ts[t].user_id

====
